---- MODULE Spec2Model ----
(***************************************************************************)
(* Model of commonroad_crime.measure.acceleration.a_long_req.ALongReq:     *)
(* the required longitudinal acceleration measure.  One measure instance   *)
(* is set up with a configuration and then compute() is called on the      *)
(* actor states of a scenario.                                             *)
(*                                                                         *)
(* Numbers.  Python floats are modelled by exact rationals <<n, d>> with   *)
(* d > 0.  The inputs are drawn from vectors whose norm is an integer and  *)
(* from orientations whose cosine is rational, so that math.sqrt and       *)
(* math.cos are exact.  Stored measure values are integers in hundredths   *)
(* (the result of rounding to 2 decimal places) or NaN.  A float division  *)
(* by zero raises ZeroDivisionError, as it does for Python floats.         *)
(***************************************************************************)
EXTENDS Integers, Sequences, FiniteSets, TLC

VARIABLES constructed, mode, scenario, value, last

vars == <<constructed, mode, scenario, value, last>>

----------------------------------------------------------------------------
(* Bounds of the model *)

\* velocity vectors are k * (6, 8), k in 0..MaxVel: speeds 0, 10, 20
MaxVel == 2
\* acceleration vectors of the other actor are (a, 0), a in 0..MaxAcc
MaxAcc == 1
\* headways are 20 * k, k in 0..MaxHw: 0, 20
MaxHw == 1
\* configuration values offered to the setup are 0..MaxMode
MaxMode == 3

----------------------------------------------------------------------------
(* Rational arithmetic: <<n, d>> with d > 0 *)

Abs(i) == IF i < 0 THEN -i ELSE i

Rat(n, d) == IF d < 0 THEN <<-n, -d>> ELSE <<n, d>>

RInt(i) == <<i, 1>>

RAdd(p, q) == <<p[1] * q[2] + q[1] * p[2], p[2] * q[2]>>

RNeg(p) == <<-p[1], p[2]>>

RSub(p, q) == RAdd(p, RNeg(q))

RMul(p, q) == <<p[1] * q[1], p[2] * q[2]>>

RIsZero(p) == p[1] = 0

\* p / q, for q # 0
RDiv(p, q) == Rat(p[1] * q[2], p[2] * q[1])

REq(p, q) == p[1] * q[2] = q[1] * p[2]

RLess(p, q) == p[1] * q[2] < q[1] * p[2]

RLeq(p, q) == p[1] * q[2] <= q[1] * p[2]

\* Python's min(p, q): q if q < p, else p
RMin(p, q) == IF RLess(q, p) THEN q ELSE p

\* math.sqrt on the perfect squares the inputs produce
Sqrt(s) == CHOOSE n \in 0..s : n * n <= s /\ s < (n + 1) * (n + 1)

\* math.cos on the orientations of the model, in degrees
Cos(deg) == IF deg = 0 THEN <<1, 1>> ELSE IF deg = 60 THEN <<1, 2>> ELSE <<-1, 1>>

----------------------------------------------------------------------------
(* Values of the measure *)

Num(c) == [k |-> "num", c |-> c]

NaN == [k |-> "nan", c |-> 0]

Unset == [k |-> "none", c |-> 0]

----------------------------------------------------------------------------
(* Scenario: the actor states compute() reads at (vehicle_id, time_step) *)

Vels == {<<6 * k, 8 * k>> : k \in 0..MaxVel}

Accs == {<<a, 0>> : a \in 0..MaxAcc}

Angles == {0, 60, 180}

Headways == {20 * k : k \in 0..MaxHw}

\* an actor without a state at the time step
NoEgo == [has |-> FALSE, vel |-> <<0, 0>>, proj |-> FALSE, ori |-> 0]

NoOther == [has |-> FALSE, vel |-> <<0, 0>>, acc |-> <<0, 0>>, proj |-> FALSE, ori |-> 0]

\* proj: the position projects onto the ego's lanelet; ori: the lanelet
\* orientation there, in degrees
EgoStates ==
    {NoEgo}
    \cup {[has |-> TRUE, vel |-> v, proj |-> FALSE, ori |-> 0] : v \in Vels}
    \cup {[has |-> TRUE, vel |-> v, proj |-> TRUE, ori |-> o] : v \in Vels, o \in Angles}

OtherStates ==
    {NoOther}
    \cup {[has |-> TRUE, vel |-> v, acc |-> a, proj |-> FALSE, ori |-> 0] :
            v \in Vels, a \in Accs}
    \cup {[has |-> TRUE, vel |-> v, acc |-> a, proj |-> TRUE, ori |-> o] :
            v \in Vels, a \in Accs, o \in Angles}

----------------------------------------------------------------------------
(* Collaborators of compute() *)

\* CriMeBase.validate_update_states_log: both actors have a state at the
\* time step
ValidateUpdateStatesLog(s) == s.ego.has /\ s.other.has

\* CriMeBase._except_obstacle_in_same_lanelet: the short-circuit applies when
\* the two actors are in the same lanelet
ExceptObstacleInSameLanelet(s) == s.sameLanelet

\* ... and it writes expected_value to the value field
ExceptValue(expected_value, self_value) == Num(expected_value)

\* HW.compute: the headway along the lanelet
HwCompute(s) == RInt(s.xrel)

\* utils_gen.int_round(x, 2) of a rational, in hundredths: the nearest
\* multiple of 0.01, halves rounded away from zero
IntRound(x) ==
    LET a == Abs(x[1])
        q == (200 * a + x[2]) \div (2 * x[2])
    IN  IF x[1] < 0 THEN -q ELSE q

\* Python truth value of a projected orientation: None and 0.0 are false
Truthy(p) == p.proj /\ p.ori # 0

----------------------------------------------------------------------------
(* ALongReq.compute, line by line *)

\* expected_value of the short-circuit, in hundredths
ExpectedValue == 0

\* mutant: the state validation is not consulted
StatesInvalidSkipped(s) == FALSE

\* `if not self.validate_update_states_log(...)`
StatesInvalid(s) == ~ValidateUpdateStatesLog(s)

\* mutant: only the ego's projection is tested
OutOfProjectionDomainEgoOnly(e, o) == ~Truthy(e)

\* `if not ego_orientation or not other_orientation`
OutOfProjectionDomain(e, o) == ~Truthy(e) \/ ~Truthy(o)

\* sqrt(x ** 2 + y ** 2) * cos(orientation)
Along(vec, ori) == RMul(RInt(Sqrt(vec[1] * vec[1] + vec[2] * vec[2])), Cos(ori))

AObj(s) == Along(s.other.acc, s.other.ori)

VEgoLong(s) == Along(s.ego.vel, s.ego.ori)

VOtherLong(s) == Along(s.other.vel, s.other.ori)

VRel(v_other_long, v_ego_long) == RSub(v_other_long, v_ego_long)

\* the divisor 2 * x_rel of the constant-acceleration model
ConstAccDen(x_rel) == RMul(RInt(2), x_rel)

\* a_req = min(a_obj - v_rel**2 / (2 * x_rel), 0.0)
AReqConstAcc(a_obj, v_ego_long, v_other_long, x_rel) ==
    LET v_rel == VRel(v_other_long, v_ego_long)
    IN  RMin(RSub(a_obj, RDiv(RMul(v_rel, v_rel), ConstAccDen(x_rel))), RInt(0))

\* the divisor 2 * (x_rel - v_other_long**2 / 2 * a_obj) of the piecewise
\* model: Python evaluates v**2 / 2 * a as (v**2 / 2) * a
PiecewiseDen(a_obj, v_other_long, x_rel) ==
    RMul(RInt(2),
         RSub(x_rel, RMul(RDiv(RMul(v_other_long, v_other_long), RInt(2)), a_obj)))

\* a_req = -(v_ego_long**2) / (2 * (x_rel - v_other_long**2 / 2 * a_obj))
AReqPiecewise(a_obj, v_ego_long, v_other_long, x_rel) ==
    RDiv(RNeg(RMul(v_ego_long, v_ego_long)), PiecewiseDen(a_obj, v_other_long, x_rel))

\* mutant: a positive a_req is rounded and stored like any other
StoreValueNoClamp(a_req, self_value) == Num(IntRound(a_req))

\* mutant: the non-closing branch leaves the value field as it was
StoreValueKeep(a_req, self_value) ==
    IF RLess(RInt(0), a_req) THEN self_value ELSE Num(IntRound(a_req))

\* `if a_req > 0: self.value = 0.0 else: self.value = int_round(a_req, 2)`
StoreValue(a_req, self_value) ==
    IF RLess(RInt(0), a_req) THEN Num(0) ELSE Num(IntRound(a_req))

\* The record of one call: whether the value field was still unset before it
\* (fresh), what it returned (Unset when it raised), what it left in the value field, and which steps it
\* executed: the lanelet lookup with the two projections, the headway
\* computation, the kinematic model, and the raw a_req.
Call(ret, val, raised, path, lookup, hw, model, raw) ==
    [called |-> TRUE, fresh |-> TRUE, ret |-> ret, value |-> val, raised |-> raised,
     path |-> path, lookup |-> lookup, hw |-> hw, model |-> model, raw |-> raw]

NoCall ==
    [called |-> FALSE, fresh |-> TRUE, ret |-> Unset, value |-> Unset, raised |-> FALSE,
     path |-> "none", lookup |-> FALSE, hw |-> FALSE, model |-> "none", raw |-> <<0, 1>>]

\* the kinematic model selected by acceleration_mode
Kinematic(s, m, self_value) ==
    LET a_obj == AObj(s)
        x_rel == HwCompute(s)
        v_ego_long == VEgoLong(s)
        v_other_long == VOtherLong(s)
    IN  IF m = 1
        THEN IF RIsZero(ConstAccDen(x_rel))
             THEN Call(Unset, self_value, TRUE, "raise", TRUE, TRUE, "constacc", <<0, 1>>)
             ELSE LET a_req == AReqConstAcc(a_obj, v_ego_long, v_other_long, x_rel)
                      v == StoreValue(a_req, self_value)
                  IN  Call(v, v, FALSE, "model", TRUE, TRUE, "constacc", a_req)
        ELSE IF RIsZero(PiecewiseDen(a_obj, v_other_long, x_rel))
             THEN Call(Unset, self_value, TRUE, "raise", TRUE, TRUE, "piecewise", <<0, 1>>)
             ELSE LET a_req == AReqPiecewise(a_obj, v_ego_long, v_other_long, x_rel)
                      v == StoreValue(a_req, self_value)
                  IN  Call(v, v, FALSE, "model", TRUE, TRUE, "piecewise", a_req)

\* from the lanelet lookup to the end of compute()
Projected(s, m, self_value) ==
    IF OutOfProjectionDomain(s.ego, s.other)
    THEN LET v == StoreValue(RInt(0), self_value)
         IN  Call(v, v, FALSE, "outdom", TRUE, FALSE, "none", RInt(0))
    ELSE Kinematic(s, m, self_value)

\* mutant: compute() without the same-lanelet short-circuit
ComputeCallNoExcept(s, m, self_value) ==
    IF StatesInvalid(s)
    THEN Call(NaN, self_value, FALSE, "nostate", FALSE, FALSE, "none", <<0, 1>>)
    ELSE Projected(s, m, self_value)

ComputeCall(s, m, self_value) ==
    IF StatesInvalid(s)
    THEN Call(NaN, self_value, FALSE, "nostate", FALSE, FALSE, "none", <<0, 1>>)
    ELSE IF ExceptObstacleInSameLanelet(s)
         THEN LET v == ExceptValue(ExpectedValue, self_value)
              IN  Call(v, v, FALSE, "same", FALSE, FALSE, "none", <<0, 1>>)
         ELSE Projected(s, m, self_value)

----------------------------------------------------------------------------
(* Setup *)

\* the configuration check of the setup: only the two kinematic models are
\* valid values of acceleration_mode
CriMeBaseInit(m) == m \in {1, 2}

\* mutant: the base class setup is not run
ALongReqInitNoSuper(m) == TRUE

\* ALongReq.__init__: super().__init__(config), then the headway measure
ALongReqInit(m) == CriMeBaseInit(m)

----------------------------------------------------------------------------
(* The state machine *)

Scenarios == [ego : EgoStates, other : OtherStates, sameLanelet : BOOLEAN, xrel : Headways]

Init ==
    /\ constructed = "no"
    /\ mode = 0
    /\ scenario \in Scenarios
    /\ scenario.ego = NoEgo /\ scenario.other = NoOther
    /\ value = Unset
    /\ last = NoCall

\* ALongReq(config) with acceleration_mode = m
Setup ==
    /\ constructed = "no"
    /\ \E m \in 0..MaxMode :
         /\ mode' = m
         /\ constructed' = IF ALongReqInit(m) THEN "ok" ELSE "failed"
    /\ UNCHANGED <<scenario, value, last>>

\* The scenario moves on to the next (vehicle_id, time_step) after the measure
\* has been evaluated on the current one: one actor state, the lanelet
\* relation or the headway changes.
SetEgo ==
    /\ constructed = "ok"
    /\ last.called
    /\ \E e \in EgoStates : e # scenario.ego /\ scenario' = [scenario EXCEPT !.ego = e]
    /\ last' = NoCall
    /\ UNCHANGED <<constructed, mode, value>>

SetOther ==
    /\ constructed = "ok"
    /\ last.called
    /\ \E o \in OtherStates : o # scenario.other /\ scenario' = [scenario EXCEPT !.other = o]
    /\ last' = NoCall
    /\ UNCHANGED <<constructed, mode, value>>

SetSameLanelet ==
    /\ constructed = "ok"
    /\ last.called
    /\ scenario' = [scenario EXCEPT !.sameLanelet = ~scenario.sameLanelet]
    /\ last' = NoCall
    /\ UNCHANGED <<constructed, mode, value>>

SetHeadway ==
    /\ constructed = "ok"
    /\ last.called
    /\ \E x \in Headways : x # scenario.xrel /\ scenario' = [scenario EXCEPT !.xrel = x]
    /\ last' = NoCall
    /\ UNCHANGED <<constructed, mode, value>>

\* measure.compute(vehicle_id, time_step)
Compute ==
    /\ constructed = "ok"
    /\ last' = [ComputeCall(scenario, mode, value) EXCEPT !.fresh = (value = Unset)]
    /\ value' = last'.value
    /\ UNCHANGED <<constructed, mode, scenario>>

Next == Setup \/ SetEgo \/ SetOther \/ SetSameLanelet \/ SetHeadway \/ Compute

Spec == Init /\ [][Next]_vars

TypeOK ==
    /\ constructed \in {"no", "ok", "failed"}
    /\ mode \in 0..MaxMode
    /\ scenario \in Scenarios
    /\ value.k \in {"num", "nan", "none"}
    /\ last.called \in BOOLEAN

----------------------------------------------------------------------------
(* Properties *)

\* both actors have a state at the time step of the last call
BothStates == scenario.ego.has /\ scenario.other.has

\* both projections onto the ego's lanelet are defined
BothProjected == scenario.ego.proj /\ scenario.other.proj

\* the last call went as far as the lanelet lookup and the projections
ReachedProjection == last.called /\ last.lookup

\* C1: every call that completes on the same-lanelet, out-of-projection,
\* constant-acceleration or piecewise-constant path stores and returns a number
\* <= 0.0, and exactly 0.0 whenever the raw a_req is strictly positive.
C1_ResultNonPositive ==
    (last.called /\ last.path \in {"same", "outdom", "model"}) =>
        /\ last.ret.k = "num"
        /\ last.ret.c <= 0
        /\ last.value = last.ret /\ value = last.ret
        /\ (last.path = "model" /\ RLess(RInt(0), last.raw)) => last.ret = Num(0)

\* a call whose raw a_req is at least 0.01 and whose result is 0.0
C1_Witness ==
    /\ last.called /\ last.path = "model"
    /\ RLeq(<<1, 100>>, last.raw)
    /\ last.ret = Num(0)

\* C2: when the ego or the other actor has no state at the time step, compute
\* returns NaN without raising, and evaluates neither the lanelet lookup and
\* projections, nor the headway, nor a kinematic model.
C2_MissingStateNaN ==
    (last.called /\ ~BothStates) =>
        /\ last.ret = NaN
        /\ ~last.raised
        /\ ~last.lookup /\ ~last.hw /\ last.model = "none"

\* a call for an other actor without a state, on an instance that already
\* holds a number from an earlier call
C2_Witness ==
    /\ last.called /\ scenario.ego.has /\ ~scenario.other.has
    /\ value.k = "num"
    /\ last.ret = NaN

\* the piecewise-constant formula as the claim states it:
\* -(v_ego_long^2) / (2 * (x_rel - v_other_long^2 / (2 * a_obj)))
ClaimedPiecewiseDen(a_obj, v_other_long, x_rel) ==
    RMul(RInt(2),
         RSub(x_rel, RDiv(RMul(v_other_long, v_other_long), RMul(RInt(2), a_obj))))

ClaimedPiecewise(a_obj, v_ego_long, v_other_long, x_rel) ==
    RDiv(RNeg(RMul(v_ego_long, v_ego_long)), ClaimedPiecewiseDen(a_obj, v_other_long, x_rel))

\* C3: in the piecewise-constant mode the raw a_req equals
\* -(v_ego_long^2) / (2 * (x_rel - v_other_long^2 / (2 * a_obj))), wherever
\* that expression is defined.
C3_PiecewiseAsClaimed ==
    (/\ last.called /\ last.path = "model" /\ last.model = "piecewise"
     /\ ~RIsZero(AObj(scenario))
     /\ ~RIsZero(ClaimedPiecewiseDen(AObj(scenario), VOtherLong(scenario), HwCompute(scenario))))
    => REq(last.raw,
           ClaimedPiecewise(AObj(scenario), VEgoLong(scenario), VOtherLong(scenario),
                            HwCompute(scenario)))

\* C4: the out-of-projection-domain default is taken only when a projection
\* is undefined; a defined projection of orientation 0 is a valid projection.
C4_DefaultOnlyWhenUndefined ==
    (last.called /\ last.path = "outdom") => ~BothProjected

\* the last call divided by zero in the selected kinematic model
ZeroDivisor ==
    /\ last.called /\ last.model # "none"
    /\ \/ mode = 1 /\ RIsZero(ConstAccDen(HwCompute(scenario)))
       \/ mode # 1 /\ RIsZero(PiecewiseDen(AObj(scenario), VOtherLong(scenario),
                                           HwCompute(scenario)))

\* C5: with both states and both projections, a zero relative distance
\* (constant acceleration) or a zero piecewise divisor does not make compute
\* raise: the result is a NaN or infinity sentinel.
C5_DivisionGuarded ==
    (BothStates /\ BothProjected /\ ZeroDivisor) =>
        (~last.raised /\ last.ret.k \in {"nan", "inf"})

C8_UndefinedProjectionZero ==
    (last.called /\ BothStates /\ ~BothProjected) =>
        /\ ~last.raised
        /\ last.ret = Num(0)
        /\ ~last.hw /\ last.model = "none"

\* a call past the short-circuit with a projectable, moving ego and an
\* accelerating, moving other actor outside the projection domain
C8_Witness ==
    /\ last.called /\ last.path = "outdom"
    /\ Truthy(scenario.ego) /\ ~scenario.other.proj
    /\ scenario.ego.vel # <<0, 0>> /\ scenario.other.vel # <<0, 0>>
    /\ scenario.other.acc # <<0, 0>>
    /\ last.ret = Num(0)

\* min(a_obj - v_rel^2 / (2 * x_rel), 0.0) with v_rel = v_other_long - v_ego_long
ClaimedConstAcc(a_obj, v_ego_long, v_other_long, x_rel) ==
    LET d == RSub(v_other_long, v_ego_long)
        t == RSub(a_obj, RDiv(RMul(d, d), RMul(RInt(2), x_rel)))
    IN  IF RLess(t, RInt(0)) THEN t ELSE RInt(0)

\* x is stored rounded to 2 decimal places as c hundredths
RoundedTo2(x, c) ==
    /\ RLeq(RSub(RMul(RInt(100), x), RInt(c)), <<1, 2>>)
    /\ RLeq(RSub(RInt(c), RMul(RInt(100), x)), <<1, 2>>)

\* C9: in the constant-acceleration mode with both projections defined (and a
\* nonzero relative distance) the raw a_req is
\* min(a_obj - v_rel^2 / (2 * x_rel), 0.0) and is stored rounded to 2 decimal
\* places; for v_ego_long 10, v_other_long 5, a_obj 0 and x_rel 20 it is -0.625.
C9_ConstAccAsClaimed ==
    (ReachedProjection /\ BothProjected /\ mode = 1 /\ scenario.xrel # 0) =>
        LET c == ClaimedConstAcc(AObj(scenario), VEgoLong(scenario), VOtherLong(scenario),
                                 HwCompute(scenario))
        IN  /\ REq(last.raw, c)
            /\ last.ret.k = "num" /\ RoundedTo2(c, last.ret.c)

\* C10: the result of a call is a function of its inputs only: it is the
\* result a fresh instance gives, whatever earlier calls left in the value
\* field.
C10_ResultIndependentOfValue ==
    last.called =>
        LET fresh == ComputeCall(scenario, mode, Unset)
        IN  /\ last.ret = fresh.ret
            /\ last.raised = fresh.raised

\* a call through the piecewise model with a positive raw a_req on an
\* instance whose value field was already written by an earlier call
C10_Witness ==
    /\ last.called /\ ~last.fresh
    /\ last.path = "model" /\ last.model = "piecewise"
    /\ RLess(RInt(0), last.raw)
    /\ last.ret = Num(0)

\* the constant-acceleration formula and the rounding hold on the calls whose
\* projected orientations are nonzero and whose relative distance is nonzero
ConstAccOnTruthyProjections ==
    (/\ ReachedProjection /\ Truthy(scenario.ego) /\ Truthy(scenario.other)
     /\ mode = 1 /\ scenario.xrel # 0) =>
        LET c == ClaimedConstAcc(AObj(scenario), VEgoLong(scenario), VOtherLong(scenario),
                                 HwCompute(scenario))
        IN  /\ last.model = "constacc"
            /\ REq(last.raw, c)
            /\ last.ret.k = "num" /\ RoundedTo2(c, last.ret.c)

\* the concrete case of C9 on a lanelet of nonzero orientation: v_ego_long 10,
\* v_other_long 5, a_obj 0, x_rel 20 give v_rel -5, a raw a_req of -5/8 and a
\* stored -0.63
ConstAccConcreteCase ==
    (/\ last.called /\ last.model = "constacc" /\ last.path = "model"
     /\ REq(VEgoLong(scenario), RInt(10)) /\ REq(VOtherLong(scenario), RInt(5))
     /\ RIsZero(AObj(scenario)) /\ scenario.xrel = 20) =>
        /\ REq(VRel(VOtherLong(scenario), VEgoLong(scenario)), RInt(-5))
        /\ REq(last.raw, <<-5, 8>>)
        /\ last.ret = Num(-63)

ConstAccConcreteReached ==
    /\ last.called /\ last.model = "constacc" /\ last.path = "model"
    /\ REq(VEgoLong(scenario), RInt(10)) /\ REq(VOtherLong(scenario), RInt(5))
    /\ RIsZero(AObj(scenario)) /\ scenario.xrel = 20

\* C11: after every call that returns, in any sequence of calls, the value
\* field has been written by that call and equals the returned result; after a
\* call that returns NaN for a missing state it does not still hold the result
\* of a previous call.  Stated for the calls on an instance whose value field
\* an earlier call has written, so that it does not depend on what the field
\* holds before the first call.
C11_ValueIsResult ==
    (last.called /\ ~last.raised /\ ~last.fresh) =>
        (last.value = last.ret /\ value = last.ret)

\* a call that returned NaN for a missing state while the value field still
\* holds the number an earlier call stored
StaleValueAfterNaN ==
    /\ last.called /\ last.path = "nostate" /\ ~last.fresh
    /\ last.ret = NaN
    /\ value.k = "num"

\* on every path that returns a number the value field is that number
ValueIsResultOnNumberPaths ==
    (last.called /\ last.path \in {"same", "outdom", "model"}) => value = last.ret

====
